---- MODULE Spec2Model ----
(***************************************************************************)
(* Monte Carlo forecast of src/src/index.js: the monteCarlo request        *)
(* (fetches, runMonteCarloSimulation, calculateConfidenceIntervals, the    *)
(* summary statistics) and the admin page's runForecast handler.           *)
(*                                                                         *)
(* Numbers are integers.  Velocity means, deviations and normal deviates   *)
(* are in hundredths; blocker impacts are in ten-thousandths; calendar     *)
(* dates are day numbers; a statistic is a fraction [num, den], and        *)
(* den = 0 is JavaScript's NaN (0 / 0).                                    *)
(***************************************************************************)
EXTENDS Integers, Sequences, FiniteSets

VARIABLES
  pc,                 \* position of the monteCarlo call
  req,                \* its request: iterations, confidenceLevels, includeBlockers
  issuesData,         \* story points of the fetched open issues
  velocityData,       \* [mean, stdDev] of fetchHistoricalVelocity
  i,                  \* runMonteCarloSimulation: trial index
  remainingPoints,    \* runMonteCarloSimulation: work left in the trial
  periodsRequired,    \* runMonteCarloSimulation: periods used by the trial
  simulationResults,  \* runMonteCarloSimulation: the trial results so far
  drawn,              \* history: effective velocities drawn in the trial
  lastDraw,           \* history: the last period's draw
  today,              \* the day new Date() returned
  confidenceIntervals,
  result,             \* what monteCarlo returned
  prevRun,            \* history: the previous run of the same request
  isLoading,          \* App state
  forecastResults,    \* App state (0: null)
  calls,              \* runForecast calls awaiting api.runMonteCarlo
  started,            \* number of runForecast calls so far
  settled             \* history: the settled calls, in settling order

callVars == <<pc, req, issuesData, velocityData>>
simVars == <<i, remainingPoints, periodsRequired, simulationResults, drawn, lastDraw>>
outVars == <<today, confidenceIntervals, result>>
uiVars == <<isLoading, forecastResults, calls, started, settled>>
vars == <<callVars, simVars, outVars, prevRun, uiVars>>

(***************************************************************************)
(* Bounds of the model.                                                    *)
(***************************************************************************)
MaxIterations == 2
PeriodUpperBound == 4
MaxDay == 1
MaxResults == 90
MaxCalls == 3

\* the period counter is followed one step past the upper bound of the
\* non-convergence guard the design asks for
MaxPeriods == PeriodUpperBound + 1

(***************************************************************************)
(* Program constants.                                                      *)
(***************************************************************************)
MockMean == 2050
MockStdDev == 187
BlockerProbability == 20
ImpactBase == 20
ImpactSpan == 40
SprintDays == 14

(***************************************************************************)
(* Inputs.                                                                 *)
(***************************************************************************)
IterationSet == (-1)..MaxIterations
LevelChoices == {<<>>, <<70>>, <<95, 50>>, <<1, 99>>, <<50, 70, 85, 95>>}
IssuesChoices == {<<>>, <<-2>>, <<3>>, <<2, 3>>}
\* Box-Muller deviates sqrt(-2 ln u1) cos(2 pi u2), u1 in (0, 1): |z| <= 8.57
ZSet == {-857, 0, 857}
\* Math.random() draws, in hundredths
RandSet == {0, 50, 99}
DaySet == 0..MaxDay

Requests ==
  [iterations : IterationSet, confidenceLevels : LevelChoices, includeBlockers : BOOLEAN]

NoRequest == [iterations |-> 0, confidenceLevels |-> <<>>, includeBlockers |-> FALSE]
NoVelocity == [mean |-> 0, stdDev |-> 0]
NoDraw == [valid |-> FALSE, before |-> 0, velocity |-> 0, blocked |-> FALSE,
           impact |-> 0, effective |-> 0]
NoResult == [returned |-> FALSE]
NoRun == [done |-> FALSE]

(***************************************************************************)
(* Helpers.                                                                *)
(***************************************************************************)
SetMax(S) == CHOOSE x \in S : \A y \in S : y <= x

RECURSIVE SeqSum(_)
SeqSum(s) == IF s = <<>> THEN 0 ELSE Head(s) + SeqSum(Tail(s))

RECURSIVE SeqSumSq(_)
SeqSumSq(s) == IF s = <<>> THEN 0 ELSE Head(s) * Head(s) + SeqSumSq(Tail(s))

\* Math.round(num / den), den > 0: the nearest integer, halves towards +infinity
RoundHalfUp(num, den) == (2 * num + den) \div (2 * den)

(***************************************************************************)
(* calculateTotalRemainingStoryPoints, sampleVelocity, applyRandomBlockers *)
(***************************************************************************)
calculateTotalRemainingStoryPoints(issues) == SeqSum(issues)

\* Math.max(0, Math.round(mean + z * stdDev))
sampleVelocity(vd, z) ==
  LET v == RoundHalfUp(vd.mean * 100 + z * vd.stdDev, 10000)
  IN IF v > 0 THEN v ELSE 0

\* Math.random() < blockerProbability
blockerHits(u) == u < BlockerProbability

\* 0.2 + Math.random() * 0.4, in ten-thousandths
impactPercentage(r) == ImpactBase * 100 + r * ImpactSpan

\* faulty variant: the impact added instead of subtracted
applyRandomBlockersAmplify(velocity, u, r) ==
  IF blockerHits(u)
  THEN RoundHalfUp(velocity * (10000 + impactPercentage(r)), 10000)
  ELSE velocity

\* Math.round(velocity * (1 - impactPercentage)) when the blocker hits
applyRandomBlockers(velocity, u, r) ==
  IF blockerHits(u)
  THEN RoundHalfUp(velocity * (10000 - impactPercentage(r)), 10000)
  ELSE velocity

effectiveVelocity(rq, velocity, u, r) ==
  IF rq.includeBlockers THEN applyRandomBlockers(velocity, u, r) ELSE velocity

(***************************************************************************)
(* IEEE-754 double arithmetic of Math.floor(length * (level / 100)).       *)
(* A bit sequence is most significant bit first.                           *)
(***************************************************************************)
MantissaBits == 53
LimbBits == 13

RECURSIVE Pow2Mod(_, _)
Pow2Mod(k, q) ==
  IF k = 0 THEN 1 % q
  ELSE LET h == Pow2Mod(k \div 2, q)
       IN (h * h * (IF k % 2 = 1 THEN 2 ELSE 1)) % q

\* remainder of the binary long division p / q after k quotient bits
FractionRem(p, q, k) == (p * Pow2Mod(k, q)) % q

\* k-th bit after the binary point of p / q, 0 < p < q
FractionBit(p, q, k) == (2 * FractionRem(p, q, k - 1)) \div q

LeadingZeros(p, q) == CHOOSE z \in 0..30 : p * 2^(z + 1) >= q /\ p * 2^z < q

\* the weight-2^j bit of b
BitAt(b, j) == IF j < Len(b) THEN b[Len(b) - j] ELSE 0

IncBits(b) ==
  LET zs == {k \in 1..Len(b) : b[k] = 0}
  IN IF zs = {} THEN <<1>> \o [k \in 1..Len(b) |-> 0]
     ELSE LET j == SetMax(zs)
          IN [k \in 1..Len(b) |-> IF k < j THEN b[k] ELSE IF k = j THEN 1 ELSE 0]

\* round to nearest, ties to even, of the integer b (leading bit 1; sticky: a
\* non-zero tail below b) to MantissaBits significant bits: the value m * 2^e
RoundNearestEven(b, sticky) ==
  IF Len(b) <= MantissaBits THEN [m |-> b, e |-> 0]
  ELSE LET keep == SubSeq(b, 1, MantissaBits)
           half == b[MantissaBits + 1]
           rest == sticky \/ \E k \in (MantissaBits + 2)..Len(b) : b[k] = 1
           up   == half = 1 /\ (rest \/ keep[MantissaBits] = 1)
           inc  == IncBits(keep)
           drop == Len(b) - MantissaBits
       IN IF ~up THEN [m |-> keep, e |-> drop]
          ELSE IF Len(inc) > MantissaBits
               THEN [m |-> SubSeq(inc, 1, MantissaBits), e |-> drop + 1]
               ELSE [m |-> inc, e |-> drop]

\* the double nearest p / q, 0 < p < q, as m * 2^(-s)
DivideDouble(p, q) ==
  LET z  == LeadingZeros(p, q)
      b  == [k \in 1..(MantissaBits + 1) |-> FractionBit(p, q, z + k)]
      rn == RoundNearestEven(b, FractionRem(p, q, z + MantissaBits + 1) # 0)
  IN [m |-> rn.m, s |-> z + MantissaBits + 1 - rn.e]

RECURSIVE Limb(_, _, _)
Limb(b, k, t) ==
  IF t = LimbBits THEN 0
  ELSE BitAt(b, LimbBits * k + t) + 2 * Limb(b, k, t + 1)

\* limbs (least significant first) of n times the integer b
RECURSIVE MulLimbs(_, _, _, _, _)
MulLimbs(b, n, k, carry, count) ==
  IF k = count THEN <<>>
  ELSE LET t == Limb(b, k, 0) * n + carry
       IN <<t % 2^LimbBits>> \o MulLimbs(b, n, k + 1, t \div 2^LimbBits, count)

LimbsToBits(P) ==
  LET bit(j) == (P[(j \div LimbBits) + 1] \div 2^(j % LimbBits)) % 2
      ones == {j \in 0..(LimbBits * Len(P) - 1) : bit(j) = 1}
  IN IF ones = {} THEN <<>>
     ELSE LET top == SetMax(ones)
          IN [k \in 1..(top + 1) |-> bit(top + 1 - k)]

RECURSIVE BitsToInt(_)
BitsToInt(b) ==
  IF b = <<>> THEN 0 ELSE 2 * BitsToInt(SubSeq(b, 1, Len(b) - 1)) + b[Len(b)]

\* level / 100 as a double, for the levels 1..99
LevelRatio == [p \in 1..99 |-> DivideDouble(p, 100)]

\* Math.floor(n * (level / 100)), 0 <= n < 2^17
percentileIndex(n, level) ==
  LET d    == LevelRatio[level]
      prod == LimbsToBits(MulLimbs(d.m, n, 0, 0, 7))
      rn   == RoundNearestEven(prod, FALSE)
      sh   == d.s - rn.e
  IN IF sh >= Len(rn.m) THEN 0 ELSE BitsToInt(SubSeq(rn.m, 1, Len(rn.m) - sh))

(***************************************************************************)
(* calculateConfidenceIntervals and the statistics                         *)
(***************************************************************************)
\* faulty variant: the comparator reversed, (a, b) => b - a
sortDescending(s) ==
  LET pos == [j \in 1..Len(s) |->
                Cardinality({k \in 1..Len(s) : s[k] > s[j]})
                + Cardinality({k \in 1..j : s[k] = s[j]})]
  IN [k \in 1..Len(s) |-> s[CHOOSE j \in 1..Len(s) : pos[j] = k]]

\* [...array].sort((a, b) => a - b): a stable ascending sort
sortAscending(s) ==
  LET pos == [j \in 1..Len(s) |->
                Cardinality({k \in 1..Len(s) : s[k] < s[j]})
                + Cardinality({k \in 1..j : s[k] = s[j]})]
  IN [k \in 1..Len(s) |-> s[CHOOSE j \in 1..Len(s) : pos[j] = k]]

\* sortedResults[index] is undefined past the end of the array
indexDefined(results, level) == percentileIndex(Len(results), level) < Len(results)

\* faulty variant: the period under way counted as a whole sprint
intervalForNextSprint(results, level, day) ==
  LET periods == sortAscending(results)[percentileIndex(Len(results), level) + 1]
  IN [confidence |-> level,
      periodsRequired |-> periods,
      daysRemaining |-> (periods + 1) * SprintDays,
      completionDate |-> day + (periods + 1) * SprintDays]

intervalFor(results, level, day) ==
  LET periods == sortAscending(results)[percentileIndex(Len(results), level) + 1]
  IN [confidence |-> level,
      periodsRequired |-> periods,
      daysRemaining |-> periods * SprintDays,
      completionDate |-> day + periods * SprintDays]

\* confidenceLevels.map(level => ...), every index being defined
calculateConfidenceIntervals(results, levels, day) ==
  [k \in 1..Len(levels) |-> intervalFor(results, levels[k], day)]

calculateMean(array) == [num |-> SeqSum(array), den |-> Len(array)]

calculateMedian(array) ==
  LET sorted == sortAscending(array)
      middle == Len(array) \div 2
  IN IF Len(array) = 0 THEN [num |-> 0, den |-> 0]
     ELSE IF Len(array) % 2 = 0
          THEN [num |-> sorted[middle] + sorted[middle + 1], den |-> 2]
          ELSE [num |-> sorted[middle + 1], den |-> 1]

\* the variance whose square root calculateStandardDeviation returns
calculateVariance(array) ==
  [num |-> Len(array) * SeqSumSq(array) - SeqSum(array) * SeqSum(array),
   den |-> Len(array) * Len(array)]

simulationSummary(array) ==
  [mean |-> calculateMean(array),
   median |-> calculateMedian(array),
   variance |-> calculateVariance(array)]

(***************************************************************************)
(* Initial state                                                           *)
(***************************************************************************)
IdleCall ==
  /\ pc = "idle"
  /\ req = NoRequest
  /\ issuesData = <<>>
  /\ velocityData = NoVelocity

IdleSimulation ==
  /\ i = 0
  /\ remainingPoints = 0
  /\ periodsRequired = 0
  /\ simulationResults = <<>>
  /\ drawn = <<>>
  /\ lastDraw = NoDraw

IdleOutput ==
  /\ today = 0
  /\ confidenceIntervals = <<>>
  /\ result = NoResult

IdlePage ==
  /\ isLoading = FALSE
  /\ forecastResults = 0
  /\ calls = {}
  /\ started = 0
  /\ settled = <<>>

Init ==
  /\ IdleCall
  /\ IdleSimulation
  /\ IdleOutput
  /\ prevRun = NoRun
  /\ IdlePage

(***************************************************************************)
(* monteCarlo                                                              *)
(***************************************************************************)
ResetRun ==
  /\ issuesData' = <<>>
  /\ velocityData' = NoVelocity
  /\ i' = 0
  /\ remainingPoints' = 0
  /\ periodsRequired' = 0
  /\ simulationResults' = <<>>
  /\ drawn' = <<>>
  /\ lastDraw' = NoDraw
  /\ today' = 0
  /\ confidenceIntervals' = <<>>
  /\ result' = NoResult

\* monteCarlo(req) up to its first await
MonteCarlo(r) ==
  /\ pc \in {"idle", "returned", "threw"}
  /\ prevRun = NoRun
  /\ pc' = "fetchIssues"
  /\ req' = r
  /\ ResetRun
  /\ UNCHANGED <<prevRun, uiVars>>

\* the same request again, the first run kept for comparison
Rerun ==
  /\ pc = "returned"
  /\ prevRun = NoRun
  /\ prevRun' = [done |-> TRUE, issuesData |-> issuesData,
                 velocityData |-> velocityData, today |-> today, result |-> result,
                 simulationResults |-> simulationResults]
  /\ pc' = "fetchIssues"
  /\ ResetRun
  /\ UNCHANGED <<req, uiVars>>

\* await fetchProjectIssues(projectKey)
FetchProjectIssues(d) ==
  /\ pc = "fetchIssues"
  /\ prevRun.done => d = prevRun.issuesData
  /\ issuesData' = d
  /\ pc' = "fetchVelocity"
  /\ UNCHANGED <<req, velocityData, simVars, outVars, prevRun, uiVars>>

\* await fetchHistoricalVelocity(...), then runMonteCarloSimulation begins
FetchHistoricalVelocity(hasBoards) ==
  /\ pc = "fetchVelocity"
  /\ velocityData' = IF hasBoards THEN [mean |-> MockMean, stdDev |-> MockStdDev]
                     ELSE NoVelocity
  /\ prevRun.done => velocityData' = prevRun.velocityData
  /\ i' = 0
  /\ simulationResults' = <<>>
  /\ pc' = "trial"
  /\ UNCHANGED <<req, issuesData, remainingPoints, periodsRequired, drawn, lastDraw,
                 outVars, prevRun, uiVars>>

\* a Jira request rejects
FetchFails ==
  /\ pc \in {"fetchIssues", "fetchVelocity"}
  /\ ~prevRun.done
  /\ pc' = "threw"
  /\ UNCHANGED <<req, issuesData, velocityData, simVars, outVars, prevRun, uiVars>>

(***************************************************************************)
(* runMonteCarloSimulation                                                 *)
(***************************************************************************)
totalStoryPoints == calculateTotalRemainingStoryPoints(issuesData)

\* faulty variant: periodsRequired declared outside the for loop, not reset per trial
TrialStartKeepsPeriods ==
  /\ pc = "trial"
  /\ i < req.iterations
  /\ remainingPoints' = totalStoryPoints
  /\ drawn' = <<>>
  /\ lastDraw' = NoDraw
  /\ pc' = "loop"
  /\ UNCHANGED <<req, issuesData, velocityData, i, periodsRequired, simulationResults,
                 outVars, prevRun, uiVars>>

\* for (let i = 0; i < iterations; i++) { remainingPoints = ...; periodsRequired = 0
TrialStart ==
  /\ pc = "trial"
  /\ i < req.iterations
  /\ remainingPoints' = totalStoryPoints
  /\ periodsRequired' = 0
  /\ drawn' = <<>>
  /\ lastDraw' = NoDraw
  /\ pc' = "loop"
  /\ UNCHANGED <<req, issuesData, velocityData, i, simulationResults, outVars,
                 prevRun, uiVars>>

\* one pass of while (remainingPoints > 0)
Period(z, u, r) ==
  /\ pc = "loop"
  /\ remainingPoints > 0
  /\ periodsRequired < MaxPeriods
  /\ LET velocity == sampleVelocity(velocityData, z)
         effective == effectiveVelocity(req, velocity, u, r)
     IN /\ remainingPoints' = remainingPoints - effective
        /\ drawn' = Append(drawn, effective)
        /\ lastDraw' = [valid |-> TRUE, before |-> remainingPoints,
                        velocity |-> velocity,
                        blocked |-> req.includeBlockers /\ blockerHits(u),
                        impact |-> impactPercentage(r), effective |-> effective]
  /\ periodsRequired' = periodsRequired + 1
  /\ UNCHANGED <<callVars, i, simulationResults, outVars, prevRun, uiVars>>

\* the while loop ends: simulationResults.push(periodsRequired); i++
TrialEnd ==
  /\ pc = "loop"
  /\ remainingPoints <= 0
  /\ simulationResults' = Append(simulationResults, periodsRequired)
  /\ i' = i + 1
  /\ pc' = "trial"
  /\ UNCHANGED <<req, issuesData, velocityData, remainingPoints, periodsRequired,
                 drawn, lastDraw, outVars, prevRun, uiVars>>

\* the for loop ends: return simulationResults
SimulationDone ==
  /\ pc = "trial"
  /\ i >= req.iterations
  /\ pc' = "reduce"
  /\ UNCHANGED <<req, issuesData, velocityData, simVars, outVars, prevRun, uiVars>>

(***************************************************************************)
(* calculateConfidenceIntervals and the returned forecast                  *)
(***************************************************************************)
\* an undefined periodsRequired gives an Invalid Date, and toISOString throws;
\* the callbacks of the one synchronous map read new Date() as the same day
CalculateConfidenceIntervals(day) ==
  /\ pc = "reduce"
  /\ prevRun.done => day = prevRun.today
  /\ today' = IF req.confidenceLevels = <<>> THEN today ELSE day
  /\ IF \A k \in 1..Len(req.confidenceLevels) :
          indexDefined(simulationResults, req.confidenceLevels[k])
     THEN /\ confidenceIntervals' =
               calculateConfidenceIntervals(simulationResults, req.confidenceLevels, day)
          /\ pc' = "summarise"
     ELSE /\ confidenceIntervals' = <<>>
          /\ pc' = "threw"
  /\ UNCHANGED <<req, issuesData, velocityData, simVars, result, prevRun, uiVars>>

\* return { iterations, confidenceIntervals, simulationSummary }
ReturnForecast ==
  /\ pc = "summarise"
  /\ result' = [returned |-> TRUE,
                iterations |-> req.iterations,
                confidenceIntervals |-> confidenceIntervals,
                simulationSummary |-> simulationSummary(simulationResults)]
  /\ pc' = "returned"
  /\ UNCHANGED <<req, issuesData, velocityData, simVars, today, confidenceIntervals,
                 prevRun, uiVars>>

Simulate ==
  \/ TrialStart
  \/ \E z \in ZSet : \E u \in RandSet : \E r \in RandSet : Period(z, u, r)
  \/ TrialEnd
  \/ SimulationDone

Fetch ==
  \/ \E d \in IssuesChoices : FetchProjectIssues(d)
  \/ \E hasBoards \in BOOLEAN : FetchHistoricalVelocity(hasBoards)
  \/ FetchFails

Reduce ==
  \/ \E day \in DaySet : CalculateConfidenceIntervals(day)
  \/ ReturnForecast

Next ==
  \/ \E r \in Requests : MonteCarlo(r)
  \/ Fetch
  \/ Simulate
  \/ Reduce

Spec == Init /\ [][Next]_vars

(***************************************************************************)
(* calculateConfidenceIntervals on its own: the trial results are drawn    *)
(* from families of every length up to MaxResults.                         *)
(***************************************************************************)
ResultShapes(n) ==
  { [k \in 1..n |-> k],
    [k \in 1..n |-> n + 1 - k],
    [k \in 1..n |-> 1 + ((7 * k) % 5)],
    [k \in 1..n |-> 2] }

InitReduce ==
  /\ pc = "reduce"
  /\ \E n \in 0..MaxResults :
       /\ simulationResults \in ResultShapes(n)
       /\ \E levels \in LevelChoices :
            req = [iterations |-> n, confidenceLevels |-> levels,
                   includeBlockers |-> FALSE]
       /\ i = n
  /\ issuesData = <<>>
  /\ velocityData = NoVelocity
  /\ remainingPoints = 0
  /\ periodsRequired = 0
  /\ drawn = <<>>
  /\ lastDraw = NoDraw
  /\ IdleOutput
  /\ prevRun = NoRun
  /\ IdlePage

NextReduce == \E day \in DaySet : CalculateConfidenceIntervals(day)

SpecReduce == InitReduce /\ [][NextReduce]_vars

(***************************************************************************)
(* The same request run twice against the same Jira answers and the same   *)
(* day.                                                                    *)
(***************************************************************************)
NextRerun ==
  \/ \E r \in Requests : MonteCarlo(r)
  \/ Rerun
  \/ Fetch
  \/ Simulate
  \/ Reduce

SpecRerun == Init /\ [][NextRerun]_vars

(***************************************************************************)
(* The admin page: runForecast                                             *)
(***************************************************************************)
\* setIsLoading(true); api.runMonteCarlo(...) returns a promise; await
RunForecast ==
  /\ started < MaxCalls
  /\ started' = started + 1
  /\ isLoading' = TRUE
  /\ calls' = calls \cup {started + 1}
  /\ UNCHANGED <<forecastResults, settled, callVars, simVars, outVars, prevRun>>

\* setIsLoading(true); api.runMonteCarlo(...) throws; catch; finally
RunForecastThrows ==
  /\ started < MaxCalls
  /\ started' = started + 1
  /\ isLoading' = FALSE
  /\ settled' = Append(settled, [call |-> started + 1, ok |-> FALSE])
  /\ UNCHANGED <<forecastResults, calls, callVars, simVars, outVars, prevRun>>

\* the promise resolves: setForecastResults(result); finally
ForecastResolves(c) ==
  /\ c \in calls
  /\ forecastResults' = c
  /\ isLoading' = FALSE
  /\ calls' = calls \ {c}
  /\ settled' = Append(settled, [call |-> c, ok |-> TRUE])
  /\ UNCHANGED <<started, callVars, simVars, outVars, prevRun>>

\* faulty variant: setIsLoading(false) at the end of the try block, not in finally
ForecastRejectsKeepsLoading(c) ==
  /\ c \in calls
  /\ calls' = calls \ {c}
  /\ settled' = Append(settled, [call |-> c, ok |-> FALSE])
  /\ UNCHANGED <<started, isLoading, forecastResults, callVars, simVars, outVars, prevRun>>

\* the promise rejects: catch; finally
ForecastRejects(c) ==
  /\ c \in calls
  /\ isLoading' = FALSE
  /\ calls' = calls \ {c}
  /\ settled' = Append(settled, [call |-> c, ok |-> FALSE])
  /\ UNCHANGED <<started, forecastResults, callVars, simVars, outVars, prevRun>>

NextPage ==
  \/ RunForecast
  \/ RunForecastThrows
  \/ \E c \in 1..MaxCalls : ForecastResolves(c)
  \/ \E c \in 1..MaxCalls : ForecastRejects(c)

SpecPage == Init /\ [][NextPage]_vars

(***************************************************************************)
(* Properties                                                              *)
(***************************************************************************)
Simulating == pc \in {"trial", "loop"}
Simulated == pc \in {"reduce", "summarise", "returned"}
Reduced == pc \in {"summarise", "returned"}
HasBoards == velocityData.mean = MockMean

RECURSIVE PrefixSum(_, _)
PrefixSum(s, k) == IF k = 0 THEN 0 ELSE s[k] + PrefixSum(s, k - 1)

\* C1: a trial whose period counter has passed the upper bound with work still
\* remaining has stopped (the run failing as non-convergent): no trial is
\* still looping past the bound.
C1_TrialStopsAtUpperBound ==
  (pc = "loop" /\ remainingPoints > 0) => periodsRequired <= PeriodUpperBound

\* C2: with a remaining count of 0 no trial draws from the sampler, every trial
\* records 0 periods, and every reported interval has daysRemaining = 0 and
\* completionDate = the reference date.
C2_ZeroRemaining ==
  (totalStoryPoints = 0 /\ (Simulating \/ Simulated))
    => /\ drawn = <<>>
       /\ lastDraw = NoDraw
       /\ \A k \in 1..Len(simulationResults) : simulationResults[k] = 0
       /\ \A k \in 1..Len(confidenceIntervals) :
            /\ confidenceIntervals[k].periodsRequired = 0
            /\ confidenceIntervals[k].daysRemaining = 0
            /\ confidenceIntervals[k].completionDate = today

C2_Witness ==
  /\ pc = "returned"
  /\ totalStoryPoints = 0
  /\ HasBoards
  /\ Len(simulationResults) = 2
  /\ Len(result.confidenceIntervals) = 4
  /\ today = 1

\* C3: for N >= 1 trial results and a level p, the reported periodsRequired is
\* the element of the ascending-sorted results at 0-indexed rank
\* floor(N * p / 100) clamped to [0, N - 1], a value of the raw results.
NearestRank(n, p) ==
  IF (n * p) \div 100 > n - 1 THEN n - 1
  ELSE IF (n * p) \div 100 < 0 THEN 0 ELSE (n * p) \div 100

C3_NearestRank ==
  (pc = "summarise" /\ Len(simulationResults) >= 1)
    => \A k \in 1..Len(confidenceIntervals) :
         /\ confidenceIntervals[k].periodsRequired =
              sortAscending(simulationResults)
                [NearestRank(Len(simulationResults), confidenceIntervals[k].confidence) + 1]
         /\ \E j \in 1..Len(simulationResults) :
              simulationResults[j] = confidenceIntervals[k].periodsRequired

C5_AscendingLevels ==
  pc = "returned"
    => \A k \in 1..(Len(result.confidenceIntervals) - 1) :
         result.confidenceIntervals[k].confidence
           < result.confidenceIntervals[k + 1].confidence

\* C6: a request with iterations <= 0, a negative remaining count or no
\* confidence level never runs a trial and never returns a forecast; no
\* returned forecast is computed from an empty sequence of trial results.
InvalidConfiguration ==
  \/ req.iterations <= 0
  \/ totalStoryPoints < 0
  \/ req.confidenceLevels = <<>>

C6_InvalidRejected ==
  /\ pc = "loop" => ~InvalidConfiguration
  /\ pc = "returned" => (~InvalidConfiguration /\ simulationResults # <<>>)

ImpactInRange(d) ==
  /\ d.impact >= ImpactBase * 100
  /\ d.impact < (ImpactBase + ImpactSpan) * 100

C9_SameForecast ==
  (pc = "returned" /\ prevRun.done)
    => /\ simulationResults = prevRun.simulationResults
       /\ result = prevRun.result

\* C10: a runForecast call sets isLoading when it starts; when its forecast
\* call settles isLoading is cleared, and forecastResults is replaced on success
\* and kept on failure; so once every call has settled, isLoading is false and
\* forecastResults is the result of the last call that settled successfully
\* (null when none did).
LastSuccess(log) ==
  LET oks == {k \in 1..Len(log) : log[k].ok}
  IN IF oks = {} THEN 0 ELSE log[SetMax(oks)].call

C10_SettledPage ==
  [][/\ (started' = started + 1 /\ started' \in calls') => isLoading' = TRUE
     /\ Len(settled') > Len(settled)
          => /\ isLoading' = FALSE
             /\ forecastResults' = IF settled'[Len(settled')].ok
                                    THEN settled'[Len(settled')].call
                                    ELSE forecastResults
     /\ calls' = {}
          => (isLoading' = FALSE /\ forecastResults' = LastSuccess(settled'))]_vars

C10_Witness ==
  /\ calls = {}
  /\ Len(settled) = 3
  /\ settled[1] = [call |-> 2, ok |-> TRUE]
  /\ settled[2] = [call |-> 1, ok |-> TRUE]
  /\ settled[3] = [call |-> 3, ok |-> FALSE]
  /\ forecastResults = 1

====
